---- MODULE Spec2Model ----
(***************************************************************************)
(* Authorization-token storage layer (package token, storage_auth.go):     *)
(* a primary bucket (encoded identifier -> encoded record), a secondary    *)
(* index bucket (token -> encoded identifier), the codec, the CRUD         *)
(* operations executed inside caller-supplied transactions, and the        *)
(* hint-predicate / authoritative-filter pair used by ListAuthorizations.  *)
(***************************************************************************)
EXTENDS Integers, Sequences, FiniteSets, TLC

VARIABLES
    primary,    \* committed primary bucket: encoded id -> stored value
    index,      \* committed index bucket: token key -> encoded id
    txPrimary,  \* primary bucket as the last call's transaction left it
    txIndex,    \* index bucket as the last call's transaction left it
    call,       \* the last call: operation, arguments, injected failure
    ret         \* what the last call returned

vars == <<primary, index, txPrimary, txIndex, call, ret>>

----------------------------------------------------------------------------
(* Bounds of the model.                                                    *)

\* identifiers are 1..MaxID; 0 is the invalid (unset) identifier
MaxID == 2

\* width of an encoded identifier (hex digits)
IDLength == 16

IDs == 1..MaxID

\* characters tokens are made of; the double quote and the backslash are
\* the ones the JSON encoder escapes
Chars == {"a", "b", "\"", "\\"}

TokA == <<"a">>

TokB == <<"b">>

TokQ == <<"\"">>

----------------------------------------------------------------------------
(* influxdb.ID: Valid, Encode, Decode.                                     *)

Valid(id) == id /= 0

RECURSIVE HexDigits(_, _)
HexDigits(n, w) ==
    IF w = 0 THEN <<>> ELSE Append(HexDigits(n \div 16, w - 1), n % 16)

\* ID.Encode: fixed-width hex text; an invalid identifier does not encode
EncodeOK(id) == Valid(id)

EncodeID(id) == HexDigits(id, IDLength)

RECURSIVE HexValue(_)
HexValue(s) ==
    IF s = <<>> THEN 0
    ELSE 16 * HexValue(SubSeq(s, 1, Len(s) - 1)) + s[Len(s)]

\* ID.Decode: the text must be IDLength hex digits of a valid identifier
DecodeOK(s) ==
    /\ Len(s) = IDLength
    /\ \A i \in 1..Len(s) : s[i] \in 0..15
    /\ HexValue(s) /= 0

DecodeID(s) == HexValue(s)

----------------------------------------------------------------------------
(* Errors: a code and the cause it wraps.                                  *)

Err(code, cause) == [code |-> code, cause |-> cause]

NoErr == Err("nil", "nil")

IsErr(e) == e /= NoErr

ErrInvalidAuthID == Err("EInvalid", "ErrInvalidAuthID")

ErrAuthNotFound == Err("ENotFound", "ErrAuthNotFound")

ErrUnableToCreateToken == Err("EInvalid", "ErrUnableToCreateToken")

NotUniqueError == Err("EConflict", "NotUniqueError")

ErrInternalServiceError(cause) == Err("EInternal", cause)

UnexpectedAuthIndexError(cause) == Err("EInternal", cause)

UnexpectedIndexError(cause) == Err("EInternal", cause)

----------------------------------------------------------------------------
(* influxdb.Authorization and its JSON layout.                             *)

Active == "active"

Inactive == "inactive"

Authorization(id, token, status, description, orgID, userID, perms, cAt, uAt) ==
    [id |-> id, token |-> token, status |-> status,
     description |-> description, orgID |-> orgID, userID |-> userID,
     permissions |-> perms, createdAt |-> cAt, updatedAt |-> uAt]

ZeroAuth == Authorization(0, <<>>, "", "", 0, 0, <<>>, 0, 0)

\* a pointer to an Authorization: nil, or the value it points at
NilPtr == [nil |-> TRUE, val |-> ZeroAuth]

Ptr(a) == [nil |-> FALSE, val |-> a]

\* JSON string escaping of a token
RECURSIVE EscapeJSON(_)
EscapeJSON(t) ==
    IF t = <<>> THEN <<>>
    ELSE (IF Head(t) \in {"\"", "\\"} THEN <<"\\", Head(t)>> ELSE <<Head(t)>>)
         \o EscapeJSON(Tail(t))

\* the text is a well-formed JSON string body: every backslash escapes the
\* next character and no quote is left bare
RECURSIVE StringOK(_)
StringOK(s) ==
    IF s = <<>> THEN TRUE
    ELSE IF Head(s) = "\\" THEN Len(s) >= 2 /\ StringOK(Tail(Tail(s)))
    ELSE Head(s) /= "\"" /\ StringOK(Tail(s))

RECURSIVE UnescapeJSON(_)
UnescapeJSON(s) ==
    IF s = <<>> THEN <<>>
    ELSE IF Head(s) = "\\" THEN <<s[2]>> \o UnescapeJSON(Tail(Tail(s)))
    ELSE <<Head(s)>> \o UnescapeJSON(Tail(s))

\* json.Marshal of an Authorization: the fields present and their texts;
\* orgID and userID are omitted when zero, id is always written and does
\* not marshal when invalid
MarshalOK(a) == EncodeOK(a.id)

Marshal(a) ==
    [syntaxOK |-> TRUE,
     fields |-> {"id", "token", "status", "description", "permissions",
                 "createdAt", "updatedAt"}
                \cup (IF a.orgID /= 0 THEN {"orgID"} ELSE {})
                \cup (IF a.userID /= 0 THEN {"userID"} ELSE {}),
     id |-> EncodeID(a.id),
     token |-> EscapeJSON(a.token),
     status |-> a.status,
     description |-> a.description,
     orgID |-> IF a.orgID /= 0 THEN EncodeID(a.orgID) ELSE <<>>,
     userID |-> IF a.userID /= 0 THEN EncodeID(a.userID) ELSE <<>>,
     permissions |-> a.permissions,
     createdAt |-> a.createdAt,
     updatedAt |-> a.updatedAt]

\* json.Unmarshal into a pointer: a nil pointer is rejected, so is a value
\* with a syntax error or a field text that does not parse; a field the
\* value lacks keeps what the target held
UnmarshalOK(b, a) ==
    /\ ~a.nil
    /\ b.syntaxOK
    /\ "id" \in b.fields => DecodeOK(b.id)
    /\ "orgID" \in b.fields => DecodeOK(b.orgID)
    /\ "userID" \in b.fields => DecodeOK(b.userID)
    /\ "token" \in b.fields => StringOK(b.token)

Unmarshal(b, a) ==
    [id |-> IF "id" \in b.fields THEN DecodeID(b.id) ELSE a.val.id,
     token |-> IF "token" \in b.fields THEN UnescapeJSON(b.token)
               ELSE a.val.token,
     status |-> IF "status" \in b.fields THEN b.status ELSE a.val.status,
     description |-> IF "description" \in b.fields THEN b.description
                     ELSE a.val.description,
     orgID |-> IF "orgID" \in b.fields THEN DecodeID(b.orgID)
               ELSE a.val.orgID,
     userID |-> IF "userID" \in b.fields THEN DecodeID(b.userID)
                ELSE a.val.userID,
     permissions |-> IF "permissions" \in b.fields THEN b.permissions
                     ELSE a.val.permissions,
     createdAt |-> IF "createdAt" \in b.fields THEN b.createdAt
                   ELSE a.val.createdAt,
     updatedAt |-> IF "updatedAt" \in b.fields THEN b.updatedAt
                   ELSE a.val.updatedAt]

----------------------------------------------------------------------------
(* Codec.                                                                  *)

\* an encoder that writes every record as Active
encodeAuthorization_forcing(a) ==
    LET a1 == [a EXCEPT !.status = Active] IN
    IF a.status \notin {Active, Inactive, ""}
    THEN [err |-> Err("EInvalid", "unknown authorization status"),
          a |-> a, v |-> Marshal(a)]
    ELSE IF ~MarshalOK(a1)
    THEN [err |-> Err("EInvalid", "json.Marshal"), a |-> a1, v |-> Marshal(a1)]
    ELSE [err |-> NoErr, a |-> a1, v |-> Marshal(a1)]

\* encodeAuthorization: the status is checked and an empty one rewritten
\* to Active in the caller's record before it is marshalled
encodeAuthorization(a) ==
    LET a1 == IF a.status = "" THEN [a EXCEPT !.status = Active] ELSE a IN
    IF a.status \notin {Active, Inactive, ""}
    THEN [err |-> Err("EInvalid", "unknown authorization status"),
          a |-> a, v |-> Marshal(a)]
    ELSE IF ~MarshalOK(a1)
    THEN [err |-> Err("EInvalid", "json.Marshal"), a |-> a1, v |-> Marshal(a1)]
    ELSE [err |-> NoErr, a |-> a1, v |-> Marshal(a1)]

\* decodeAuthorization(b, a): unmarshals into the pointer it is given and
\* defaults an empty status to Active
decodeAuthorization(b, a) ==
    IF ~UnmarshalOK(b, a)
    THEN [err |-> Err("EInvalid", "json.Unmarshal"), a |-> a.val]
    ELSE LET r == Unmarshal(b, a) IN
         [err |-> NoErr,
          a |-> IF r.status = "" THEN [r EXCEPT !.status = Active] ELSE r]

----------------------------------------------------------------------------
(* kv.Bucket: Get, Put, Delete on a bucket held as a function.             *)

EmptyBucket == [k \in {} |-> TRUE]

Has(b, k) == k \in DOMAIN b

Put(b, k, v) == [x \in (DOMAIN b) \cup {k} |-> IF x = k THEN v ELSE b[x]]

Delete(b, k) == [x \in (DOMAIN b) \ {k} |-> b[x]]

\* a transaction's view of the two buckets
Tx(p, x) == [p |-> p, x |-> x]

\* authIndexKey: the raw token bytes
authIndexKey(n) == n

----------------------------------------------------------------------------
(* Index & uniqueness enforcer.                                            *)

\* a unique that finds every key absent
unique_blind(tx, indexKey, fault) ==
    IF fault = "unique.Bucket" THEN UnexpectedIndexError("tx.Bucket")
    ELSE IF fault = "unique.Get" THEN UnexpectedIndexError("bucket.Get")
    ELSE NoErr

\* unique: nil when the key is absent, NotUniqueError when it is present,
\* UnexpectedIndexError when the bucket or the lookup fails
unique(tx, indexKey, fault) ==
    IF fault = "unique.Bucket" THEN UnexpectedIndexError("tx.Bucket")
    ELSE IF fault = "unique.Get" THEN UnexpectedIndexError("bucket.Get")
    ELSE IF ~Has(tx.x, indexKey) THEN NoErr
    ELSE NotUniqueError

\* a uniqueAuthToken that lets the not-unique error through
uniqueAuthToken_leaking(tx, a, fault) ==
    unique(tx, authIndexKey(a.token), fault)

\* uniqueAuthToken: a duplicate is reported as the generic creation error
uniqueAuthToken(tx, a, fault) ==
    LET err == unique(tx, authIndexKey(a.token), fault) IN
    IF err = NotUniqueError THEN ErrUnableToCreateToken ELSE err

----------------------------------------------------------------------------
(* Store operations. Each takes the transaction's buckets and returns the  *)
(* error, the caller's record as the call left it, and the buckets as the  *)
(* call left them. fault names the one capability call that fails.         *)

Result(err, a, tx) ==
    [err |-> err, a |-> a, as |-> <<>>, p |-> tx.p, x |-> tx.x]

\* a CreateAuthorization that returns nil when the primary write fails
CreateAuthorization_swallowing(tx, a0, gen, fault) ==
    LET a1 == IF ~Valid(a0.id) THEN [a0 EXCEPT !.id = gen] ELSE a0
        enc == encodeAuthorization(a1)
        a == enc.a
        encodedID == EncodeID(a.id)
        uq == uniqueAuthToken(tx, a, fault)
        tx1 == Tx(tx.p, Put(tx.x, authIndexKey(a.token), encodedID))
        tx2 == Tx(Put(tx1.p, encodedID, enc.v), tx1.x)
    IN  IF ~Valid(a0.id) /\ gen = 0 THEN Result(NoErr, a0, tx)
        ELSE IF IsErr(enc.err) THEN Result(Err("EInvalid", enc.err.cause), a, tx)
        ELSE IF ~EncodeOK(a.id)
        THEN Result(Err("EInvalid", "ErrInvalidAuthIDError"), a, tx)
        ELSE IF fault = "authIndexBucket"
        THEN Result(UnexpectedAuthIndexError("tx.Bucket"), a, tx)
        ELSE IF IsErr(uq) THEN Result(uq, a, tx)
        ELSE IF fault = "Bucket" THEN Result(Err("", "tx.Bucket"), a, tx)
        ELSE IF fault = "idx.Put"
        THEN Result(Err("EInternal", "idx.Put"), a, tx)
        ELSE IF fault = "b.Put" THEN Result(NoErr, a, tx1)
        ELSE Result(NoErr, a, tx2)

\* CreateAuthorization; gen is the identifier generateSafeID yields, 0 when
\* it fails: the call then returns nil at once
CreateAuthorization(tx, a0, gen, fault) ==
    IF ~Valid(a0.id) /\ gen = 0
    THEN Result(NoErr, a0, tx)
    ELSE
    LET a1 == IF ~Valid(a0.id) THEN [a0 EXCEPT !.id = gen] ELSE a0
        enc == encodeAuthorization(a1)
        a == enc.a
        encodedID == EncodeID(a.id)
        uq == uniqueAuthToken(tx, a, fault)
        tx1 == Tx(tx.p, Put(tx.x, authIndexKey(a.token), encodedID))
        tx2 == Tx(Put(tx1.p, encodedID, enc.v), tx1.x)
    IN  IF IsErr(enc.err) THEN Result(Err("EInvalid", enc.err.cause), a, tx)
        ELSE IF ~EncodeOK(a.id)
        THEN Result(Err("EInvalid", "ErrInvalidAuthIDError"), a, tx)
        ELSE IF fault = "authIndexBucket"
        THEN Result(UnexpectedAuthIndexError("tx.Bucket"), a, tx)
        ELSE IF IsErr(uq) THEN Result(uq, a, tx)
        ELSE IF fault = "Bucket" THEN Result(Err("", "tx.Bucket"), a, tx)
        ELSE IF fault = "idx.Put"
        THEN Result(Err("EInternal", "idx.Put"), a, tx)
        ELSE IF fault = "b.Put" THEN Result(Err("", "b.Put"), a, tx1)
        ELSE Result(NoErr, a, tx2)

\* GetAuthorizationByID: the stored value is decoded into the named result
\* a, which nothing has assigned: it is still the nil pointer
GetAuthorizationByID(tx, id, fault) ==
    LET encodedID == EncodeID(id)
        dec == decodeAuthorization(tx.p[encodedID], NilPtr)
    IN  IF ~EncodeOK(id) THEN Result(ErrInvalidAuthID, ZeroAuth, tx)
        ELSE IF fault = "get.Bucket"
        THEN Result(ErrInternalServiceError("tx.Bucket"), ZeroAuth, tx)
        ELSE IF fault = "get.Get"
        THEN Result(ErrInternalServiceError("b.Get"), ZeroAuth, tx)
        ELSE IF ~Has(tx.p, encodedID) THEN Result(ErrAuthNotFound, ZeroAuth, tx)
        ELSE IF IsErr(dec.err)
        THEN Result(Err("EInvalid", dec.err.cause), ZeroAuth, tx)
        ELSE Result(NoErr, dec.a, tx)

\* GetAuthorizationByToken: only a not-found lookup returns early; after
\* any other lookup error the identifier is decoded from no bytes
GetAuthorizationByToken(tx, token, fault) ==
    LET idKey == IF fault = "idx.Get" THEN <<>> ELSE tx.x[authIndexKey(token)]
    IN  IF fault = "authIndexBucket"
        THEN Result(UnexpectedAuthIndexError("tx.Bucket"), ZeroAuth, tx)
        ELSE IF fault /= "idx.Get" /\ ~Has(tx.x, authIndexKey(token))
        THEN Result(Err("ENotFound", "authorization not found"), ZeroAuth, tx)
        ELSE IF ~DecodeOK(idKey)
        THEN Result(Err("EInvalid", "id.Decode"), ZeroAuth, tx)
        ELSE GetAuthorizationByID(tx, DecodeID(idKey), fault)

\* an AuthorizationUpdate: each field is set or nil
Update(hasStatus, status, hasDescription, description) ==
    [hasStatus |-> hasStatus, status |-> status,
     hasDescription |-> hasDescription, description |-> description]

\* UpdateAuthorization: the record is loaded and encoded, then the update
\* is applied to the loaded record, and the bytes encoded before that are
\* written; now is the clock reading
UpdateAuthorization(tx, id, upd, now, fault) ==
    LET got == GetAuthorizationByID(tx, id, fault)
        enc == encodeAuthorization(got.a)
        a0 == enc.a
        encodedID == EncodeID(a0.id)
        a1 == IF upd.hasStatus THEN [a0 EXCEPT !.status = upd.status] ELSE a0
        a2 == IF upd.hasDescription
              THEN [a1 EXCEPT !.description = upd.description] ELSE a1
        a == [a2 EXCEPT !.updatedAt = now]
        tx1 == Tx(tx.p, Put(tx.x, authIndexKey(a.token), encodedID))
        tx2 == Tx(Put(tx1.p, encodedID, enc.v), tx1.x)
    IN  IF IsErr(got.err)
        THEN Result(Err("ENotFound", got.err.cause), ZeroAuth, tx)
        ELSE IF IsErr(enc.err)
        THEN Result(Err("EInvalid", enc.err.cause), ZeroAuth, tx)
        ELSE IF ~EncodeOK(a0.id)
        THEN Result(Err("ENotFound", "ID.Encode"), ZeroAuth, tx)
        ELSE IF fault = "authIndexBucket"
        THEN Result(UnexpectedAuthIndexError("tx.Bucket"), ZeroAuth, tx)
        ELSE IF fault = "idx.Put"
        THEN Result(Err("EInternal", "idx.Put"), ZeroAuth, tx)
        ELSE IF fault = "Bucket" THEN Result(Err("", "tx.Bucket"), ZeroAuth, tx1)
        ELSE IF fault = "b.Put" THEN Result(Err("", "b.Put"), ZeroAuth, tx1)
        ELSE Result(NoErr, a, tx2)

\* DeleteAuthorization once the record a is loaded: both entries go
deleteLoaded(tx, id, a, fault) ==
    LET encodedID == EncodeID(id)
        tx1 == Tx(tx.p, Delete(tx.x, authIndexKey(a.token)))
        tx2 == Tx(Delete(tx1.p, encodedID), tx1.x)
    IN  IF ~EncodeOK(id) THEN Result(ErrInvalidAuthID, ZeroAuth, tx)
        ELSE IF fault = "authIndexBucket"
        THEN Result(UnexpectedAuthIndexError("tx.Bucket"), ZeroAuth, tx)
        ELSE IF fault = "Bucket" THEN Result(Err("", "tx.Bucket"), ZeroAuth, tx)
        ELSE IF fault = "idx.Delete"
        THEN Result(ErrInternalServiceError("idx.Delete"), ZeroAuth, tx)
        ELSE IF fault = "b.Delete"
        THEN Result(ErrInternalServiceError("b.Delete"), ZeroAuth, tx1)
        ELSE Result(NoErr, ZeroAuth, tx2)

\* a Delete that reports the failure to load the record
DeleteAuthorization_surfacing(tx, id, fault) ==
    LET got == GetAuthorizationByID(tx, id, fault)
    IN  IF IsErr(got.err) THEN Result(got.err, ZeroAuth, tx)
        ELSE deleteLoaded(tx, id, got.a, fault)

\* DeleteAuthorization: any failure to load the record ends the call with
\* a nil error
DeleteAuthorization(tx, id, fault) ==
    LET got == GetAuthorizationByID(tx, id, fault)
    IN  IF IsErr(got.err) THEN Result(NoErr, ZeroAuth, tx)
        ELSE deleteLoaded(tx, id, got.a, fault)

----------------------------------------------------------------------------
(* Predicate & filter engine.                                              *)

\* an AuthorizationFilter: each field is set or nil
Filter(hasID, id, hasToken, token, hasOrg, orgID, hasUser, userID) ==
    [hasID |-> hasID, id |-> id, hasToken |-> hasToken, token |-> token,
     hasOrg |-> hasOrg, orgID |-> orgID, hasUser |-> hasUser,
     userID |-> userID]

\* jsonparser.Get: the raw text of a top-level key, without unescaping;
\* it fails when the key cannot be found in the value
GetFails(value, key) == ~value.syntaxOK \/ key \notin value.fields

\* jsonp.GetID: the key's text decoded as an identifier; an error when the
\* key is not found or its text is no identifier
GetID(value, key) ==
    IF GetFails(value, key) \/ ~DecodeOK(value[key])
    THEN [err |-> TRUE, id |-> 0]
    ELSE [err |-> FALSE, id |-> DecodeID(value[key])]

\* jsonp.GetOptionalID: a key that is not found is no error, it does not
\* exist; a text that is no identifier is an error
GetOptionalID(value, key) ==
    IF GetFails(value, key) THEN [err |-> FALSE, exists |-> FALSE, id |-> 0]
    ELSE IF ~DecodeOK(value[key])
    THEN [err |-> TRUE, exists |-> FALSE, id |-> 0]
    ELSE [err |-> FALSE, exists |-> TRUE, id |-> DecodeID(value[key])]

\* authorizationsPredicateFn returns no predicate for the empty filter
predicateIsNil(f) == ~f.hasID /\ ~f.hasToken /\ ~f.hasOrg /\ ~f.hasUser

\* the organization predicate with an error counted as exclusion
orgPredicate_strict(f, value) ==
    LET got == GetID(value, "orgID") IN ~got.err /\ got.id = f.orgID

\* the organization predicate: pred of lines 390-397
orgPredicate(f, value) ==
    LET got == GetID(value, "orgID") IN
    IF got.err THEN TRUE ELSE got.id = f.orgID

\* the predicate authorizationsPredicateFn(f) returns, applied to value
authorizationsPredicateFn(f, value) ==
    IF f.hasID
    THEN LET got == GetID(value, "id") IN
         IF got.err THEN TRUE ELSE got.id = f.id
    ELSE IF f.hasToken
    THEN IF GetFails(value, "token") THEN TRUE ELSE value.token = f.token
    ELSE LET prev == ~f.hasOrg \/ orgPredicate(f, value)
             got == GetOptionalID(value, "userID")
         IN  IF f.hasUser
             THEN prev /\ ((f.userID = got.id /\ got.exists) \/ got.err)
             ELSE prev

\* the filter filterAuthorizationsFn(f) returns, applied to record a
filterAuthorizationsFn(f, a) ==
    IF f.hasID THEN a.id = f.id
    ELSE IF f.hasToken THEN a.token = f.token
    ELSE IF f.hasOrg /\ f.hasUser
    THEN a.orgID = f.orgID /\ a.userID = f.userID
    ELSE IF f.hasOrg THEN a.orgID = f.orgID
    ELSE IF f.hasUser THEN a.userID = f.userID
    ELSE TRUE

----------------------------------------------------------------------------
(* Iteration engine.                                                       *)

\* lexicographic order of two keys of the same width
RECURSIVE LexLess(_, _)
LexLess(s, t) ==
    /\ s /= <<>>
    /\ \/ Head(s) < Head(t)
       \/ Head(s) = Head(t) /\ LexLess(Tail(s), Tail(t))

RECURSIVE SortedKeys(_)
SortedKeys(S) ==
    IF S = {} THEN <<>>
    ELSE LET m == CHOOSE k \in S : \A j \in S \ {k} : LexLess(k, j)
         IN  <<m>> \o SortedKeys(S \ {m})

\* kv.Bucket.Cursor: the entries in ascending key order; with a hint
\* predicate the store may skip the entries the predicate excludes
Cursor(b, f, hintApplied) ==
    LET keys == SortedKeys(DOMAIN b)
        Kept(k) == \/ predicateIsNil(f)
                   \/ ~hintApplied
                   \/ authorizationsPredicateFn(f, b[k])
    IN  SelectSeq(keys, Kept)

\* number of permission slots preallocated for each decoded record
PermissionsPrealloc == 64

Preallocated ==
    [ZeroAuth EXCEPT !.permissions = [i \in 1..PermissionsPrealloc |-> "zero"]]

\* the loop of forEachAuthorization over the keys the cursor yields: each
\* value is decoded and handed to the callback, until a value does not
\* decode or the callback returns false (it does for the records of stopOn)
RECURSIVE walk(_, _, _)
walk(b, keys, stopOn) ==
    IF keys = <<>> THEN [err |-> NoErr, delivered |-> <<>>]
    ELSE LET dec == decodeAuthorization(b[Head(keys)], Ptr(Preallocated))
             rest == walk(b, Tail(keys), stopOn)
         IN  IF IsErr(dec.err)
             THEN [err |-> Err("", dec.err.cause), delivered |-> <<>>]
             ELSE IF dec.a \in stopOn
             THEN [err |-> NoErr, delivered |-> <<dec.a>>]
             ELSE [err |-> rest.err, delivered |-> <<dec.a>> \o rest.delivered]

\* a forEachAuthorization that goes on whatever the callback returns
forEachAuthorization_deaf(tx, f, hintApplied, stopOn, fault) ==
    IF fault = "Bucket" THEN [err |-> Err("", "tx.Bucket"), delivered |-> <<>>]
    ELSE IF fault = "Cursor"
    THEN [err |-> Err("", "b.Cursor"), delivered |-> <<>>]
    ELSE walk(tx.p, Cursor(tx.p, f, hintApplied), {})

forEachAuthorization(tx, f, hintApplied, stopOn, fault) ==
    IF fault = "Bucket" THEN [err |-> Err("", "tx.Bucket"), delivered |-> <<>>]
    ELSE IF fault = "Cursor"
    THEN [err |-> Err("", "b.Cursor"), delivered |-> <<>>]
    ELSE walk(tx.p, Cursor(tx.p, f, hintApplied), stopOn)

\* ListAuthorizations: the delivered records the filter accepts, or the
\* error and no records
ListAuthorizations(tx, f, hintApplied, fault) ==
    LET each == forEachAuthorization(tx, f, hintApplied, {}, fault)
        Accepted(a) == filterAuthorizationsFn(f, a)
    IN  IF fault = "list.Bucket"
        THEN [Result(Err("", "tx.Bucket"), ZeroAuth, tx) EXCEPT !.as = <<>>]
        ELSE IF IsErr(each.err)
        THEN [Result(each.err, ZeroAuth, tx) EXCEPT !.as = <<>>]
        ELSE [Result(NoErr, ZeroAuth, tx)
                EXCEPT !.as = SelectSeq(each.delivered, Accepted)]

----------------------------------------------------------------------------
(* The caller: every operation runs in a transaction opened on the         *)
(* committed buckets, which is committed when the operation returns nil    *)
(* and rolled back otherwise.                                              *)

Committed == Tx(primary, index)

Commit(r) ==
    /\ ret' = [err |-> r.err, a |-> r.a, as |-> r.as]
    /\ txPrimary' = r.p
    /\ txIndex' = r.x
    /\ primary' = IF r.err = NoErr THEN r.p ELSE primary
    /\ index' = IF r.err = NoErr THEN r.x ELSE index

\* generateSafeID: an identifier no primary record uses, or 0 for failure
FreeIDs == {i \in IDs : ~Has(primary, EncodeID(i))}

GenOutcomes(a) == IF Valid(a.id) THEN {0} ELSE FreeIDs \cup {0}

CreateCall(a, gen, fault) ==
    [op |-> "create", a |-> a, gen |-> gen, fault |-> fault]

GetByIDCall(id, fault) == [op |-> "getByID", id |-> id, fault |-> fault]

GetByTokenCall(token, fault) ==
    [op |-> "getByToken", token |-> token, fault |-> fault]

UpdateCall(id, upd, now, fault) ==
    [op |-> "update", id |-> id, upd |-> upd, now |-> now, fault |-> fault]

DeleteCall(id, fault) == [op |-> "delete", id |-> id, fault |-> fault]

\* the clock reading UpdateAuthorization takes
Now == 2

----------------------------------------------------------------------------
(* Spec: the CRUD operations, every capability call succeeding except the  *)
(* identifier generator, which may fail.                                   *)

Statuses == {"", Inactive, "bogus"}

CreateInputs ==
    {Authorization(id, t, s, "d", 1, 1, <<>>, 1, 1) :
        id \in 0..MaxID, t \in {TokA, TokB}, s \in Statuses}

UpdateInputs ==
    {Update(TRUE, Inactive, FALSE, ""), Update(FALSE, "", TRUE, "e"),
     Update(TRUE, "bogus", TRUE, "e"), Update(TRUE, Active, FALSE, "")}

Init ==
    /\ primary = EmptyBucket
    /\ index = EmptyBucket
    /\ txPrimary = EmptyBucket
    /\ txIndex = EmptyBucket
    /\ call = [op |-> "none"]
    /\ ret = [err |-> NoErr, a |-> ZeroAuth, as |-> <<>>]

Create ==
    \E a \in CreateInputs : \E gen \in GenOutcomes(a) :
        /\ call' = CreateCall(a, gen, "none")
        /\ Commit(CreateAuthorization(Committed, a, gen, "none"))

GetByID ==
    \E id \in 0..MaxID :
        /\ call' = GetByIDCall(id, "none")
        /\ Commit(GetAuthorizationByID(Committed, id, "none"))

GetByToken ==
    \E t \in {TokA, TokB} :
        /\ call' = GetByTokenCall(t, "none")
        /\ Commit(GetAuthorizationByToken(Committed, t, "none"))

UpdateOp ==
    \E id \in 0..MaxID, upd \in UpdateInputs :
        /\ call' = UpdateCall(id, upd, Now, "none")
        /\ Commit(UpdateAuthorization(Committed, id, upd, Now, "none"))

DeleteOp ==
    \E id \in 0..MaxID :
        /\ call' = DeleteCall(id, "none")
        /\ Commit(DeleteAuthorization(Committed, id, "none"))

Next == Create \/ GetByID \/ GetByToken \/ UpdateOp \/ DeleteOp

Spec == Init /\ [][Next]_vars

----------------------------------------------------------------------------
(* SpecF: the same operations with one capability call of each operation   *)
(* failing (Bucket, Get, Put, Delete).                                     *)

CreateFaults ==
    {"none", "authIndexBucket", "unique.Bucket", "unique.Get", "Bucket",
     "idx.Put", "b.Put"}

GetFaults == {"none", "get.Bucket", "get.Get"}

TokenFaults == GetFaults \cup {"authIndexBucket", "idx.Get"}

UpdateFaults == GetFaults \cup {"authIndexBucket", "idx.Put", "Bucket", "b.Put"}

DeleteFaults ==
    GetFaults \cup {"authIndexBucket", "Bucket", "idx.Delete", "b.Delete"}

CreateInputsF ==
    {Authorization(id, t, "", "d", 1, 1, <<>>, 1, 1) :
        id \in 0..MaxID, t \in {TokA, TokB}}

CreateF ==
    \E a \in CreateInputsF, fault \in CreateFaults : \E gen \in GenOutcomes(a) :
        /\ call' = CreateCall(a, gen, fault)
        /\ Commit(CreateAuthorization(Committed, a, gen, fault))

GetByIDF ==
    \E id \in IDs, fault \in GetFaults :
        /\ call' = GetByIDCall(id, fault)
        /\ Commit(GetAuthorizationByID(Committed, id, fault))

GetByTokenF ==
    \E t \in {TokA, TokB}, fault \in TokenFaults :
        /\ call' = GetByTokenCall(t, fault)
        /\ Commit(GetAuthorizationByToken(Committed, t, fault))

UpdateF ==
    \E id \in IDs, fault \in UpdateFaults :
        /\ call' = UpdateCall(id, Update(TRUE, Inactive, TRUE, "e"), Now, fault)
        /\ Commit(UpdateAuthorization(Committed, id,
                                      Update(TRUE, Inactive, TRUE, "e"), Now, fault))

DeleteF ==
    \E id \in IDs, fault \in DeleteFaults :
        /\ call' = DeleteCall(id, fault)
        /\ Commit(DeleteAuthorization(Committed, id, fault))

NextF == CreateF \/ GetByIDF \/ GetByTokenF \/ UpdateF \/ DeleteF

SpecF == Init /\ [][NextF]_vars

----------------------------------------------------------------------------
(* SpecL: records that differ in token, organization and user are created  *)
(* and listed under every filter shape; the store applies the hint         *)
(* predicate or ignores it.                                                *)

ListCall(f, hintApplied, fault) ==
    [op |-> "list", f |-> f, hintApplied |-> hintApplied, fault |-> fault]

\* filters enumerated with -1 (identifiers) and <<>> (token) for nil
FilterOf(i, t, o, u) ==
    Filter(i /= -1, IF i = -1 THEN 0 ELSE i, t /= <<>>, t,
           o /= -1, IF o = -1 THEN 0 ELSE o, u /= -1, IF u = -1 THEN 0 ELSE u)

CreateInputsL ==
    {Authorization(id, t, "", "d", o, u, <<>>, 1, 1) :
        id \in IDs, t \in {TokA, TokQ}, o \in {1, 2}, u \in {0, 1}}

FiltersL ==
    {FilterOf(i, t, o, u) :
        i \in {-1, 1}, t \in {<<>>, TokA, TokQ}, o \in {-1, 1}, u \in {-1, 0, 1}}

\* a List writes nothing: what can follow it can follow the state before
\* it, so a behaviour is explored up to its first List
CreateL ==
    \E a \in CreateInputsL :
        /\ call.op /= "list"
        /\ call' = CreateCall(a, 0, "none")
        /\ Commit(CreateAuthorization(Committed, a, 0, "none"))

ListL ==
    \E f \in FiltersL, hintApplied \in BOOLEAN :
        /\ call.op /= "list"
        /\ call' = ListCall(f, hintApplied, "none")
        /\ Commit(ListAuthorizations(Committed, f, hintApplied, "none"))

NextL == CreateL \/ ListL

SpecL == Init /\ [][NextL]_vars

----------------------------------------------------------------------------
(* SpecP: the hint predicate and the authoritative filter of one filter    *)
(* applied to one stored value, for every filter and every value of a      *)
(* bounded set that holds absent and malformed fields.                     *)

\* a text that is no identifier
BadID == <<16>>

\* a stored value with the given texts; <<>> stands for a field left out
Raw(ok, id, t, o, u) ==
    [syntaxOK |-> ok,
     fields |-> {"status", "description", "permissions", "createdAt",
                 "updatedAt"}
                \cup (IF id /= <<>> THEN {"id"} ELSE {})
                \cup (IF t /= <<>> THEN {"token"} ELSE {})
                \cup (IF o /= <<>> THEN {"orgID"} ELSE {})
                \cup (IF u /= <<>> THEN {"userID"} ELSE {}),
     id |-> id, token |-> t, status |-> Active, description |-> "d",
     orgID |-> o, userID |-> u, permissions |-> <<>>,
     createdAt |-> 1, updatedAt |-> 1]

RawValues ==
    {Raw(ok, id, t, o, u) :
        ok \in BOOLEAN,
        id \in {<<>>, BadID, EncodeID(1)},
        t \in {<<>>, EscapeJSON(TokA), EscapeJSON(TokQ)},
        o \in {<<>>, BadID} \cup {EncodeID(n) : n \in IDs},
        u \in {<<>>, BadID} \cup {EncodeID(n) : n \in IDs}}

FiltersP ==
    {FilterOf(i, t, o, u) :
        i \in {-1, 0, 1}, t \in {<<>>, TokA, TokQ}, o \in {-1, 0, 1},
        u \in {-1, 0, 1}}

ProbeCall(f, value) == [op |-> "predicate", f |-> f, value |-> value]

\* both filters of f on one value: whether a hint predicate exists, what
\* it answers, whether the value decodes, what the filter answers then
Probe ==
    /\ call.op = "none"
    /\ \E f \in FiltersP, value \in RawValues :
          LET dec == decodeAuthorization(value, Ptr(Preallocated)) IN
          /\ call' = ProbeCall(f, value)
          /\ ret' = [err |-> dec.err, a |-> dec.a, as |-> <<>>,
                     predNil |-> predicateIsNil(f),
                     include |-> authorizationsPredicateFn(f, value),
                     accept |-> filterAuthorizationsFn(f, dec.a)]
          /\ UNCHANGED <<primary, index, txPrimary, txIndex>>

NextP == Probe

SpecP == Init /\ [][NextP]_vars

----------------------------------------------------------------------------
(* Properties of the CRUD operations.                                      *)

\* the token of a stored value
StoredToken(v) == UnescapeJSON(v.token)

\* some primary record of bucket p carries token t
TokenStored(p, t) == \E k \in DOMAIN p : StoredToken(p[k]) = t

\* what decoding a stored value into a fresh record gives
Decoded(v) == decodeAuthorization(v, Ptr(ZeroAuth)).a

\* C1: index consistency of the committed buckets: every index entry
\* t -> id points at an existing primary record whose token is t, and every
\* primary record (id, token t) has the index entry t -> id, whatever
\* sequence of Create, Update and Delete calls led there (Create calls with
\* a caller-supplied identifier already in use included).
C1_IndexConsistency ==
    /\ \A t \in DOMAIN index :
          /\ Has(primary, index[t])
          /\ StoredToken(primary[index[t]]) = t
    /\ \A k \in DOMAIN primary :
          /\ Has(index, StoredToken(primary[k]))
          /\ index[StoredToken(primary[k])] = k

C3_CreateSuccessComplete ==
    (call.op = "create" /\ ret.err = NoErr)
    => LET k == EncodeID(ret.a.id)
       IN  /\ Valid(ret.a.id)
           /\ call.fault = "none"
           /\ Has(txIndex, ret.a.token) /\ txIndex[ret.a.token] = k
           /\ Has(txPrimary, k) /\ Decoded(txPrimary[k]) = ret.a

\* the update asks for nothing the codec rejects
ValidUpdate(upd) == upd.hasStatus => upd.status \in {Active, Inactive}

\* C4: UpdateAuthorization(id, upd) on an existing record succeeds, and
\* the record then persisted equals the record returned: its status is
\* upd.Status and its description upd.Description when present, its
\* updated-at is the clock reading, and GetAuthorizationByID(id) returns
\* these values.
C4_UpdatePersisted ==
    (/\ call.op = "update"
     /\ Has(primary, EncodeID(call.id))
     /\ ValidUpdate(call.upd))
    => LET k == EncodeID(call.id)
           got == GetAuthorizationByID(Tx(txPrimary, txIndex), call.id, "none")
       IN  /\ ret.err = NoErr
           /\ Decoded(txPrimary[k]) = ret.a
           /\ call.upd.hasStatus => ret.a.status = call.upd.status
           /\ call.upd.hasDescription
                => ret.a.description = call.upd.description
           /\ ret.a.updatedAt = call.now
           /\ got.err = NoErr /\ got.a = ret.a

\* C5: DeleteAuthorization(id) on an identifier with a stored record
\* removes the record's index entry and its primary entry, after which
\* GetAuthorizationByID(id) and GetAuthorizationByToken(token) both return
\* Not-Found.
C5_DeleteRemoves ==
    [][(call'.op = "delete" /\ Has(primary, EncodeID(call'.id)))
       => LET k == EncodeID(call'.id)
              t == StoredToken(primary[k])
              after == Tx(primary', index')
          IN  /\ ret'.err = NoErr
              /\ ~Has(primary', k)
              /\ ~Has(index', t)
              /\ GetAuthorizationByID(after, call'.id, "none").err.code
                    = "ENotFound"
              /\ GetAuthorizationByToken(after, t, "none").err.code
                    = "ENotFound"]_vars

\* C6: DeleteAuthorization(id) on an identifier with no stored record
\* returns success and leaves the primary and the index bucket as they
\* were; a Delete repeated after any Delete returns the same and changes
\* nothing further.
C6_IdempotentDelete ==
    [][call'.op = "delete"
       => LET again == DeleteAuthorization(Tx(primary', index'), call'.id,
                                           "none")
          IN  /\ ~Has(primary, EncodeID(call'.id))
                   => (/\ ret'.err = NoErr
                       /\ txPrimary' = primary /\ txIndex' = index
                       /\ primary' = primary /\ index' = index)
              /\ again.err = ret'.err
              /\ again.p = primary' /\ again.x = index']_vars

\* a Delete of an identifier without a record returned on a store that
\* holds other records
C6_Witness ==
    /\ call.op = "delete"
    /\ Valid(call.id)
    /\ ~Has(primary, EncodeID(call.id))
    /\ primary /= EmptyBucket
    /\ ret.err = NoErr

\* C10: UpdateAuthorization on an existing record succeeds changing only
\* status, description and updated-at: identifier, token, organization,
\* user, permissions and created-at of the returned and of the persisted
\* record are those stored before the call, the index entry of the token
\* maps to the same identifier, every other entry is unchanged.
C10_UpdateScope ==
    [][(/\ call'.op = "update"
        /\ Has(primary, EncodeID(call'.id))
        /\ ValidUpdate(call'.upd))
       => LET k == EncodeID(call'.id)
              old == Decoded(primary[k])
              new == Decoded(primary'[k])
              Same(x, y) ==
                  /\ x.id = y.id /\ x.token = y.token
                  /\ x.orgID = y.orgID /\ x.userID = y.userID
                  /\ x.permissions = y.permissions
                  /\ x.createdAt = y.createdAt
          IN  /\ ret'.err = NoErr
              /\ Same(ret'.a, old)
              /\ Has(primary', k) /\ Same(new, old)
              /\ DOMAIN primary' = DOMAIN primary
              /\ \A j \in DOMAIN primary \ {k} : primary'[j] = primary[j]
              /\ index' = index]_vars

----------------------------------------------------------------------------
(* Properties of ListAuthorizations, the hint predicate and the filter.    *)

\* the rule of the precedence order that applies to filter f
IDRule(f) == f.hasID

TokenRule(f) == ~f.hasID /\ f.hasToken

OrgUserRule(f) == ~f.hasID /\ ~f.hasToken /\ f.hasOrg /\ f.hasUser

OrgRule(f) == ~f.hasID /\ ~f.hasToken /\ f.hasOrg /\ ~f.hasUser

UserRule(f) == ~f.hasID /\ ~f.hasToken /\ ~f.hasOrg /\ f.hasUser

\* record a is selected by the first applicable rule of f
Selected(f, a) ==
    /\ IDRule(f) => a.id = f.id
    /\ TokenRule(f) => a.token = f.token
    /\ OrgUserRule(f) => (a.orgID = f.orgID /\ a.userID = f.userID)
    /\ OrgRule(f) => a.orgID = f.orgID
    /\ UserRule(f) => a.userID = f.userID

\* the records of the primary bucket
StoredRecords == {Decoded(primary[k]) : k \in DOMAIN primary}

\* the sequence holds exactly the records of set S, each once, in
\* ascending identifier order
ExactlyInOrder(as, S) ==
    /\ {as[n] : n \in 1..Len(as)} = S
    /\ Len(as) = Cardinality(S)
    /\ \A n \in 1..(Len(as) - 1) : as[n].id < as[n + 1].id

\* the text holds an escape sequence
Escaped(text) == \E n \in 1..Len(text) : text[n] = "\\"

\* the identifiers a filter sets are valid ones
ValidFilter(f) ==
    /\ f.hasID => Valid(f.id)
    /\ f.hasOrg => Valid(f.orgID)
    /\ f.hasUser => Valid(f.userID)

\* C7 as stated: ListAuthorizations(filter) returns exactly the stored
\* records selected by the first applicable rule of the precedence order
\* (identifier, token, organization and user, organization, user, all);
\* no matching stored record is missing. Stated for the filters whose
\* identifiers are valid.
C7_ListExact ==
    (call.op = "list" /\ ValidFilter(call.f))
    => /\ ret.err = NoErr
       /\ ExactlyInOrder(ret.as, {a \in StoredRecords : Selected(call.f, a)})

\* Extent of the C7 divergence: the listing is exact for every filter whose
\* token (when the token rule applies) holds no character that JSON escapes
\* and whose user (when a user rule applies) is a valid identifier.
C7_ListExactUnescaped ==
    call.op = "list"
    => /\ ret.err = NoErr
       /\ \A n \in 1..Len(ret.as) :
             ret.as[n] \in StoredRecords /\ Selected(call.f, ret.as[n])
       /\ (/\ TokenRule(call.f) => ~Escaped(EscapeJSON(call.f.token))
           /\ (UserRule(call.f) \/ OrgUserRule(call.f))
                 => Valid(call.f.userID))
          => ExactlyInOrder(ret.as,
                            {a \in StoredRecords : Selected(call.f, a)})

\* a List by organization and user, the store applying the hint, returned
\* one of two stored records of that organization
C7_Witness ==
    /\ call.op = "list"
    /\ OrgUserRule(call.f)
    /\ call.hintApplied
    /\ Len(ret.as) = 1
    /\ Cardinality({a \in StoredRecords : a.orgID = call.f.orgID}) = 2

\* C8 as stated: for every filter and every stored value the filter
\* accepts once decoded, the hint predicate of the same filter includes
\* the raw value, or there is no hint predicate. Stated for the filters
\* whose identifiers are valid.
C8_NoFalseNegative ==
    (/\ call.op = "predicate" /\ ~IsErr(ret.err) /\ ret.accept
     /\ ValidFilter(call.f))
    => (ret.predNil \/ ret.include)

\* Extent of the C8 divergence: no false negative for stored values whose
\* token text holds no escape sequence (when the token rule applies) and
\* filters whose user (when a user rule applies) is a valid identifier.
C8_NoFalseNegativeUnescaped ==
    (/\ call.op = "predicate" /\ ~IsErr(ret.err) /\ ret.accept
     /\ TokenRule(call.f) => ~Escaped(call.value.token)
     /\ (UserRule(call.f) \/ OrgUserRule(call.f)) => Valid(call.f.userID))
    => (ret.predNil \/ ret.include)

\* a value accepted under an organization-and-user filter and included by
\* the hint predicate
C8_Witness ==
    /\ call.op = "predicate"
    /\ OrgUserRule(call.f)
    /\ Valid(call.f.userID)
    /\ ~IsErr(ret.err)
    /\ ret.accept
    /\ ret.include

\* extraction of a field from a stored value: the key is not found, or
\* its text is no identifier
Absent(value, key) == ~value.syntaxOK \/ key \notin value.fields

Malformed(value, key) == ~Absent(value, key) /\ ~DecodeOK(value[key])

Fails(value, key) == Absent(value, key) \/ Malformed(value, key)

\* C9 as stated: for each filter shape, whenever extraction of the field
\* (of both fields, for organization+user) the hint predicate inspects
\* fails, the bytes being malformed or the field absent, the predicate
\* returns include.
C9_IncludeOnAnyFailure ==
    call.op = "predicate"
    => LET f == call.f
           v == call.value
       IN  /\ (IDRule(f) /\ Fails(v, "id")) => ret.include
           /\ (TokenRule(f) /\ Absent(v, "token")) => ret.include
           /\ (OrgRule(f) /\ Fails(v, "orgID")) => ret.include
           /\ (UserRule(f) /\ Fails(v, "userID")) => ret.include
           /\ (OrgUserRule(f) /\ Fails(v, "orgID") /\ Fails(v, "userID"))
                 => ret.include

\* C9 amended: the predicate returns include when extraction fails under
\* the identifier, token and organization shapes; under the user shapes a
\* malformed userID counts as a match and an absent userID as a mismatch:
\* user-only returns include on malformed and exclude on absent,
\* organization+user returns exclude on an absent userID, and otherwise
\* what the field that did not fail decides (include when both fail).
C9_IncludeOnError ==
    call.op = "predicate"
    => LET f == call.f
           v == call.value
       IN  /\ (IDRule(f) /\ Fails(v, "id")) => ret.include
           /\ (TokenRule(f) /\ Absent(v, "token")) => ret.include
           /\ (OrgRule(f) /\ Fails(v, "orgID")) => ret.include
           /\ (UserRule(f) /\ Malformed(v, "userID")) => ret.include
           /\ (UserRule(f) /\ Absent(v, "userID")) => ~ret.include
           /\ (OrgUserRule(f) /\ Absent(v, "userID")) => ~ret.include
           /\ (OrgUserRule(f) /\ Fails(v, "orgID") /\ Malformed(v, "userID"))
                 => ret.include
           /\ (OrgUserRule(f) /\ Fails(v, "orgID") /\ ~Fails(v, "userID"))
                 => (ret.include <=> DecodeID(v.userID) = f.userID)
           /\ (OrgUserRule(f) /\ ~Fails(v, "orgID") /\ Malformed(v, "userID"))
                 => (ret.include <=> DecodeID(v.orgID) = f.orgID)

\* an organization+user filter on a value whose orgID is absent and whose
\* userID is malformed: included
C9_Witness ==
    /\ call.op = "predicate"
    /\ OrgUserRule(call.f)
    /\ call.value.syntaxOK
    /\ Absent(call.value, "orgID")
    /\ Malformed(call.value, "userID")
    /\ ret.include

----------------------------------------------------------------------------
(* Properties of the status field.                                         *)

ValidStatuses == {Active, Inactive}

\* C11: no operation persists or returns a record whose status is outside
\* {Active, Inactive}; an empty status is normalized to Active on write and
\* on read; a Create (its identifier generator not failing) or an Update of
\* an existing record that would give the record any other status fails
\* with an Invalid-input error and writes nothing.
C11_StatusValid ==
    [][/\ \A k \in DOMAIN primary' : primary'[k].status \in ValidStatuses
       /\ (call'.op \in {"getByID", "getByToken", "update"}
           /\ ret'.err = NoErr) => ret'.a.status \in ValidStatuses
       /\ (call'.op = "create" /\ ret'.err = NoErr
           /\ (Valid(call'.a.id) \/ call'.gen /= 0))
             => (/\ ret'.a.status \in ValidStatuses
                 /\ call'.a.status = "" => ret'.a.status = Active)
       /\ (\/ /\ call'.op = "create"
              /\ call'.a.status \notin ValidStatuses \cup {""}
              /\ (Valid(call'.a.id) \/ call'.gen /= 0)
           \/ /\ call'.op = "update"
              /\ Has(primary, EncodeID(call'.id))
              /\ call'.upd.hasStatus
              /\ call'.upd.status \notin ValidStatuses)
             => (/\ ret'.err.code = "EInvalid"
                 /\ txPrimary' = primary /\ txIndex' = index
                 /\ primary' = primary /\ index' = index)]_vars

----------------------------------------------------------------------------
(* SpecC: two callers run CreateAuthorization concurrently, each in its own *)
(* transaction, one bucket call at a time. The store buffers a              *)
(* transaction's writes until the caller commits. Under serializable        *)
(* isolation it runs one write transaction at a time; under read-committed  *)
(* isolation transactions overlap and each read sees what is committed.     *)

Procs == {1, 2}

Other(p) == CHOOSE q \in Procs : q /= p

Isolations == {"serializable", "readCommitted"}

\* the committed bucket b with the buffered writes w of a transaction
Overlay(b, w) ==
    [k \in (DOMAIN b) \cup (DOMAIN w) |-> IF k \in DOMAIN w THEN w[k] ELSE b[k]]

\* what the transaction of caller p reads
View(p) == Tx(Overlay(primary, txPrimary[p]), Overlay(index, txIndex[p]))

CreateInputsC ==
    {Authorization(id, t, "", "d", 1, 1, <<>>, 1, 1) :
        id \in 0..MaxID, t \in {TokA, TokB}}

RaceCall(iso, a, gen, pc) ==
    [op |-> "race", isolation |-> iso, a |-> a, gen |-> gen, pc |-> pc]

InitC ==
    /\ primary = EmptyBucket
    /\ index = EmptyBucket
    /\ txPrimary = [p \in Procs |-> EmptyBucket]
    /\ txIndex = [p \in Procs |-> EmptyBucket]
    /\ call \in {RaceCall(iso, [p \in Procs |-> ZeroAuth], [p \in Procs |-> 0],
                          [p \in Procs |-> "idle"]) : iso \in Isolations}
    /\ ret = [p \in Procs |-> [err |-> NoErr, a |-> ZeroAuth, as |-> <<>>]]

\* the caller opens a write transaction and calls CreateAuthorization
Begin(p) ==
    /\ call.pc[p] = "idle"
    /\ call.isolation = "serializable"
         => call.pc[Other(p)] \in {"idle", "done"}
    /\ \E a \in CreateInputsC :
          call' = [call EXCEPT !.a[p] = a, !.pc[p] = "check"]
    /\ UNCHANGED <<primary, index, txPrimary, txIndex, ret>>

\* CreateAuthorization up to its first write (lines 65-98): identifier,
\* encoding, uniqueness lookup; it goes on to idx.Put when all succeed
Check(p) ==
    /\ call.pc[p] = "check"
    /\ \E gen \in GenOutcomes(call.a[p]) :
          LET r == CreateAuthorization(View(p), call.a[p], gen, "idx.Put")
              goesOn == r.err = Err("EInternal", "idx.Put")
          IN  /\ call' = [call EXCEPT !.gen[p] = gen,
                             !.pc[p] = IF goesOn THEN "idxPut" ELSE "end"]
              /\ ret' = [ret EXCEPT ![p].a = r.a,
                            ![p].err = IF goesOn THEN NoErr ELSE r.err]
    /\ UNCHANGED <<primary, index, txPrimary, txIndex>>

\* idx.Put(authIndexKey(a.Token), encodedID), line 100
PutIndex(p) ==
    /\ call.pc[p] = "idxPut"
    /\ txIndex' = [txIndex EXCEPT ![p] =
           Put(txIndex[p], authIndexKey(ret[p].a.token), EncodeID(ret[p].a.id))]
    /\ call' = [call EXCEPT !.pc[p] = "bPut"]
    /\ UNCHANGED <<primary, index, txPrimary, ret>>

\* b.Put(encodedID, v) and return nil, lines 107-113
PutPrimary(p) ==
    /\ call.pc[p] = "bPut"
    /\ txPrimary' = [txPrimary EXCEPT ![p] =
           Put(txPrimary[p], EncodeID(ret[p].a.id),
               encodeAuthorization(ret[p].a).v)]
    /\ call' = [call EXCEPT !.pc[p] = "end"]
    /\ UNCHANGED <<primary, index, txIndex, ret>>

\* the caller commits when the call returned nil and rolls back otherwise
End(p) ==
    /\ call.pc[p] = "end"
    /\ primary' = IF ret[p].err = NoErr THEN Overlay(primary, txPrimary[p])
                  ELSE primary
    /\ index' = IF ret[p].err = NoErr THEN Overlay(index, txIndex[p])
                ELSE index
    /\ call' = [call EXCEPT !.pc[p] = "done"]
    /\ UNCHANGED <<txPrimary, txIndex, ret>>

NextC ==
    \E p \in Procs :
        Begin(p) \/ Check(p) \/ PutIndex(p) \/ PutPrimary(p) \/ End(p)

SpecC == InitC /\ [][NextC]_vars

\* the call of p ran the uniqueness lookup: its generator did not fail
Reached(p) == Valid(call.a[p].id) \/ call.gen[p] /= 0

\* both calls are over, they carried the same token and both ran the
\* check-then-write sequence
RaceOver ==
    /\ call.op = "race"
    /\ \A p \in Procs : call.pc[p] = "done" /\ Reached(p)
    /\ call.a[1].token = call.a[2].token

C12_AnyIsolationRace ==
    RaceOver
    => \E p \in Procs :
          /\ ret[p].err = NoErr
          /\ ret[Other(p)].err = ErrUnableToCreateToken

----------------------------------------------------------------------------
(* SpecR: the codec applied to one record of a bounded set: the record is   *)
(* encoded, the bytes decoded into a record the Store allocates, and the    *)
(* result encoded and decoded once more.                                   *)

CodecTokens == {TokA, TokQ, <<"\\">>, <<"a", "\"", "b">>}

CodecRecords ==
    {Authorization(id, t, s, d, o, u, <<>>, 1, 2) :
        id \in 0..MaxID, t \in CodecTokens,
        s \in {"", Active, Inactive, "bogus"}, d \in {"", "d"},
        o \in {0, 1}, u \in {0, 1}}

\* the records decodeAuthorization is handed to fill: a zero record, or
\* the one forEachAuthorization preallocates
CodecTargets == {Ptr(ZeroAuth), Ptr(Preallocated)}

CodecCall(r, target) == [op |-> "codec", r |-> r, target |-> target]

RoundTrip ==
    /\ call.op = "none"
    /\ \E r \in CodecRecords, target \in CodecTargets :
          LET enc == encodeAuthorization(r)
              dec == decodeAuthorization(enc.v, target)
              enc2 == encodeAuthorization(dec.a)
              dec2 == decodeAuthorization(enc2.v, target)
          IN  /\ call' = CodecCall(r, target)
              /\ ret' = [err |-> enc.err, a |-> enc.a, as |-> <<>>,
                         decErr |-> dec.err, decoded |-> dec.a,
                         err2 |-> IF IsErr(enc2.err) THEN enc2.err ELSE dec2.err,
                         decoded2 |-> dec2.a]
    /\ UNCHANGED <<primary, index, txPrimary, txIndex>>

NextR == RoundTrip

SpecR == Init /\ [][NextR]_vars

\* record r with an empty status rewritten to Active
Normalized(r) == IF r.status = "" THEN [r EXCEPT !.status = Active] ELSE r

\* the round trip of the record of the last call succeeded and gave the
\* record back, normalized; a second round trip changed nothing
RoundTripHolds ==
    /\ ret.err = NoErr /\ ret.decErr = NoErr
    /\ ret.decoded = Normalized(call.r)
    /\ ret.a = Normalized(call.r)
    /\ ret.err2 = NoErr
    /\ ret.decoded2 = ret.decoded

----------------------------------------------------------------------------
(* Package override: a Flagger made from a configuration string of the     *)
(* form k1:v1,k2:v2,... overrides the defaults of feature flags.           *)

Comma == ","

Colon == ":"

\* strings.Split(s, sep) for a one-character separator: the pieces
\* between the separators; a string without separator is the one piece
RECURSIVE Split(_, _)
Split(s, sep) ==
    IF \A i \in 1..Len(s) : s[i] /= sep THEN <<s>>
    ELSE LET i == CHOOSE j \in 1..Len(s) :
                     s[j] = sep /\ \A h \in 1..(j - 1) : s[h] /= sep
         IN  <<SubSeq(s, 1, i - 1)>> \o Split(SubSeq(s, i + 1, Len(s)), sep)

\* parse: every pair must split into a key and a value; a later pair
\* overwrites an earlier one with the same key
parse(s) ==
    LET pairs == Split(s, Comma)
        Parts(n) == Split(pairs[n], Colon)
        Last(k) == CHOOSE n \in 1..Len(pairs) :
                      /\ Parts(n)[1] = k
                      /\ \A h \in (n + 1)..Len(pairs) : Parts(h)[1] /= k
    IN  IF Len(pairs) < 1 \/ \E n \in 1..Len(pairs) : Len(Parts(n)) /= 2
        THEN [err |-> Err("", "errMalformed"), flags |-> EmptyBucket]
        ELSE [err |-> NoErr,
              flags |-> [k \in {Parts(n)[1] : n \in 1..Len(pairs)}
                            |-> Parts(Last(k))[2]]]

\* Make: the Flagger holding the parsed overrides
Make(s) == parse(s)

\* strconv.ParseBool
TrueTexts ==
    {<<"1">>, <<"t">>, <<"T">>, <<"T", "R", "U", "E">>,
     <<"t", "r", "u", "e">>, <<"T", "r", "u", "e">>}

FalseTexts ==
    {<<"0">>, <<"f">>, <<"F">>, <<"F", "A", "L", "S", "E">>,
     <<"f", "a", "l", "s", "e">>, <<"F", "a", "l", "s", "e">>}

\* strconv.Atoi and strconv.ParseFloat on texts of the digits 0 and 1
DigitChars == {"0", "1"}

NumberOK(s) == s /= <<>> /\ \A i \in 1..Len(s) : s[i] \in DigitChars

RECURSIVE NumberValue(_)
NumberValue(s) ==
    IF s = <<>> THEN 0
    ELSE 10 * NumberValue(SubSeq(s, 1, Len(s) - 1))
         + (IF s[Len(s)] = "1" THEN 1 ELSE 0)

\* a feature flag: its key, its type and its default
Flag(key, type, default) == [key |-> key, type |-> type, default |-> default]

\* feature.Flags(): the registered flags
RegisteredFlags ==
    {Flag(<<"k">>, "bool", FALSE), Flag(<<"x">>, "int", 0),
     Flag(<<"1">>, "string", <<"d">>)}

\* coerce: the override text as a value of the flag's type
coerce(s, flag) ==
    IF flag.type = "bool"
    THEN IF s \in TrueTexts THEN [err |-> NoErr, iface |-> TRUE]
         ELSE IF s \in FalseTexts THEN [err |-> NoErr, iface |-> FALSE]
         ELSE [err |-> Err("", "coercing string"), iface |-> FALSE]
    ELSE IF flag.type \in {"int", "float"}
    THEN IF NumberOK(s) THEN [err |-> NoErr, iface |-> NumberValue(s)]
         ELSE [err |-> Err("", "coercing string"), iface |-> 0]
    ELSE [err |-> NoErr, iface |-> s]

\* Flags: no flag requested means every registered flag; the first
\* override that does not coerce ends the call with its error
Flags(f, requested) ==
    LET flags == IF requested = {} THEN RegisteredFlags ELSE requested
        Overridden(flag) == flag.key \in DOMAIN f
    IN  IF \E flag \in flags :
              Overridden(flag) /\ IsErr(coerce(f[flag.key], flag).err)
        THEN [err |-> Err("", "coercing string"), m |-> EmptyBucket]
        ELSE [err |-> NoErr,
              m |-> [k \in {flag.key : flag \in flags} |->
                       LET flag == CHOOSE g \in flags : g.key = k
                       IN  IF Overridden(flag)
                           THEN coerce(f[flag.key], flag).iface
                           ELSE flag.default]]

----------------------------------------------------------------------------
(* SpecO: a Flagger is made from a configuration string of a bounded set   *)
(* and asked for a set of flags.                                           *)

\* longest key:value pair text
MaxPair == 3

PairChars == {"k", "x", "1", Colon}

PairTexts == UNION {[1..n -> PairChars] : n \in 0..MaxPair}

\* one pair text, or two joined by a comma
ConfigStrings ==
    PairTexts \cup {p \o <<Comma>> \o q : p \in PairTexts, q \in PairTexts}

MakeCall(s) == [op |-> "make", s |-> s]

FlagsCall(s, f, requested) ==
    [op |-> "flags", s |-> s, f |-> f, requested |-> requested]

MakeOp ==
    /\ call.op = "none"
    /\ \E s \in ConfigStrings :
          /\ call' = MakeCall(s)
          /\ ret' = [err |-> Make(s).err, a |-> ZeroAuth, as |-> <<>>,
                     f |-> Make(s).flags]
    /\ UNCHANGED <<primary, index, txPrimary, txIndex>>

FlagsOp ==
    /\ call.op = "make"
    /\ ret.err = NoErr
    /\ \E requested \in SUBSET RegisteredFlags :
          /\ call' = FlagsCall(call.s, ret.f, requested)
          /\ ret' = [err |-> Flags(ret.f, requested).err, a |-> ZeroAuth,
                     as |-> <<>>, m |-> Flags(ret.f, requested).m]
    /\ UNCHANGED <<primary, index, txPrimary, txIndex>>

NextO == MakeOp \/ FlagsOp

SpecO == Init /\ [][NextO]_vars

\* C14: Flags never returns an error: for every Flagger of a successful
\* Make(s) and every (non-empty) set of requested flags it returns a map
\* with one entry per requested flag, holding the override parsed from s
\* for the flag's key when there is one and the flag's default otherwise.
C14_FlagsNeverFail ==
    (call.op = "flags" /\ call.requested /= {})
    => /\ ret.err = NoErr
       /\ DOMAIN ret.m = {flag.key : flag \in call.requested}
       /\ \A flag \in call.requested :
             ret.m[flag.key] =
                IF flag.key \in DOMAIN call.f
                THEN coerce(call.f[flag.key], flag).iface
                ELSE flag.default

\* Extent of C14: Flags returns such a map exactly when every override of
\* a requested flag coerces to the flag's type, and the error of coerce
\* otherwise.
C14_FlagsFailOnCoerce ==
    (call.op = "flags" /\ call.requested /= {})
    => LET bad == \E flag \in call.requested :
                     /\ flag.key \in DOMAIN call.f
                     /\ IsErr(coerce(call.f[flag.key], flag).err)
       IN  /\ bad <=> IsErr(ret.err)
           /\ ~bad => /\ DOMAIN ret.m = {flag.key : flag \in call.requested}
                      /\ \A flag \in call.requested :
                            ret.m[flag.key] =
                               IF flag.key \in DOMAIN call.f
                               THEN coerce(call.f[flag.key], flag).iface
                               ELSE flag.default

----------------------------------------------------------------------------
(* Properties under failing bucket calls.                                  *)

\* every index entry of x has its primary record in p and every primary
\* record of p has its index entry in x
Paired(p, x) ==
    /\ \A t \in DOMAIN x : Has(p, x[t])
    /\ \A k \in DOMAIN p : Has(x, StoredToken(p[k]))

\* C15: whichever bucket call fails, no Create, Update or Delete returns
\* success after only one of its two bucket writes: a transaction left
\* with an index entry without its primary record, or the reverse, belongs
\* to a call that returned an error; the caller committing exactly on
\* success, no committed state has an index entry without its primary
\* record or a primary record without its index entry.
C15_NoPartialSuccess ==
    /\ (call.op \in {"create", "update", "delete"} /\ ret.err = NoErr)
         => Paired(txPrimary, txIndex)
    /\ Paired(primary, index)

\* a Create wrote its index entry, its primary write failed: it returned
\* an error and the caller rolled back
C15_Witness ==
    /\ call.op = "create"
    /\ call.fault = "b.Put"
    /\ Has(txIndex, ret.a.token)
    /\ ~Has(txPrimary, EncodeID(ret.a.id))
    /\ IsErr(ret.err)
    /\ ~Has(index, ret.a.token)
    /\ primary /= EmptyBucket

----------------------------------------------------------------------------
(* The status state machine.                                               *)

\* C16: for a stored record the persisted status Inactive is reached from
\* Active, and Active from Inactive, by one successful UpdateAuthorization
\* carrying that status: such an Update of an existing record succeeds and
\* the persisted status is then the one it carried; a record created with
\* an empty status is persisted as Active; no other status is persisted.
C16_StatusMachine ==
    [][/\ (/\ call'.op = "update"
           /\ Has(primary, EncodeID(call'.id))
           /\ call'.upd.hasStatus
           /\ call'.upd.status \in ValidStatuses)
          => (/\ ret'.err = NoErr
              /\ Has(primary', EncodeID(call'.id))
              /\ primary'[EncodeID(call'.id)].status = call'.upd.status)
       /\ (/\ call'.op = "create"
           /\ ret'.err = NoErr
           /\ call'.a.status = ""
           /\ Valid(ret'.a.id))
          => (/\ Has(primary', EncodeID(ret'.a.id))
              /\ primary'[EncodeID(ret'.a.id)].status = Active)
       /\ \A k \in DOMAIN primary' : primary'[k].status \in ValidStatuses]_vars

----------------------------------------------------------------------------
(* Error classes of the load inside Delete and Update.                     *)

\* the bucket calls of the load whose failure is a storage error
LoadFaults == {"get.Bucket", "get.Get"}

\* C17: DeleteAuthorization returns success without removing anything only
\* when the identifier has no primary record, and UpdateAuthorization
\* reports Not-Found only in that case; a load that fails with a storage
\* error of the bucket is surfaced as an Internal-storage error, one that
\* fails on the stored bytes as an Invalid-encoding error, not as success
\* and not as Not-Found.
C17_LoadErrorClass ==
    [][/\ (call'.op \in {"delete", "update"} /\ call'.fault \in LoadFaults)
          => ret'.err.code = "EInternal"
       /\ (/\ call'.op = "delete" /\ call'.fault = "none"
           /\ ret'.err = NoErr /\ txPrimary' = primary /\ txIndex' = index)
          => ~Has(primary, EncodeID(call'.id))
       /\ (/\ call'.op = "update" /\ call'.fault = "none"
           /\ ret'.err.code = "ENotFound")
          => ~Has(primary, EncodeID(call'.id))]_vars

----------------------------------------------------------------------------
(* GetAuthorizationByToken.                                                *)

\* C18: GetAuthorizationByToken(t) returns a Not-Found error exactly when
\* the index bucket has no entry for t; when the index maps t to id it
\* returns what GetAuthorizationByID(id) returns, and a record it returns
\* has token t; an index lookup that fails with another error than
\* not-found is surfaced as a storage error.
C18_ByToken ==
    call.op = "getByToken"
    => LET t == call.token IN
       /\ call.fault = "none"
            => (ret.err.code = "ENotFound" <=> ~Has(index, t))
       /\ (call.fault = "none" /\ Has(index, t))
            => LET byID == GetAuthorizationByID(Committed, DecodeID(index[t]),
                                                "none")
               IN  ret.err = byID.err /\ ret.a = byID.a
       /\ ret.err = NoErr => ret.a.token = t
       /\ call.fault = "idx.Get" => ret.err.code = "EInternal"

----------------------------------------------------------------------------
(* SpecE: forEachAuthorization and ListAuthorizations over a primary       *)
(* bucket of a bounded set whose values may be corrupt, with a callback    *)
(* that returns false at a chosen record.                                  *)

EntryIDs == 1..(MaxID + 1)

\* the stored value of a record of identifier id and organization o
GoodValue(id, o) ==
    encodeAuthorization(Authorization(id, TokA, "", "d", o, 1, <<>>, 1, 1)).v

\* stored bytes that are no JSON
CorruptValue(id) == [GoodValue(id, 1) EXCEPT !.syntaxOK = FALSE]

\* per identifier: no entry, a record of organization 1 or 2, corrupt bytes
EntryKinds == {"none", "org1", "org2", "corrupt"}

BucketOf(kind) ==
    [k \in {EncodeID(id) : id \in {i \in EntryIDs : kind[i] /= "none"}} |->
        LET id == DecodeID(k) IN
        IF kind[id] = "corrupt" THEN CorruptValue(id)
        ELSE GoodValue(id, IF kind[id] = "org1" THEN 1 ELSE 2)]

StoredBuckets == {BucketOf(kind) : kind \in [EntryIDs -> EntryKinds]}

FiltersE == {FilterOf(-1, <<>>, -1, -1), FilterOf(-1, <<>>, 1, -1)}

ForEachCall(f, hintApplied, stop) ==
    [op |-> "forEach", f |-> f, hintApplied |-> hintApplied, stop |-> stop,
     fault |-> "none"]

\* what a value decodes to in the loop of forEachAuthorization
DecodedInLoop(v) == decodeAuthorization(v, Ptr(Preallocated))

\* the records for which the callback returns false: those of identifier stop
StopRecords(stop) ==
    {DecodedInLoop(primary[k]).a : k \in {j \in DOMAIN primary :
        ~IsErr(DecodedInLoop(primary[j]).err)
        /\ DecodedInLoop(primary[j]).a.id = stop}}

InitE ==
    /\ primary \in StoredBuckets
    /\ index = EmptyBucket
    /\ txPrimary = primary
    /\ txIndex = EmptyBucket
    /\ call = [op |-> "none"]
    /\ ret = [err |-> NoErr, a |-> ZeroAuth, as |-> <<>>]

\* neither call writes: a behaviour is explored up to its first call
ForEachE ==
    /\ call.op = "none"
    /\ \E f \in FiltersE, hintApplied \in BOOLEAN, stop \in {0} \cup EntryIDs :
          /\ call' = ForEachCall(f, hintApplied, stop)
          /\ ret' = [err |-> forEachAuthorization(Committed, f, hintApplied,
                                 StopRecords(stop), "none").err,
                     a |-> ZeroAuth,
                     as |-> forEachAuthorization(Committed, f, hintApplied,
                                StopRecords(stop), "none").delivered]
    /\ UNCHANGED <<primary, index, txPrimary, txIndex>>

ListE ==
    /\ call.op = "none"
    /\ \E f \in FiltersE, hintApplied \in BOOLEAN :
          /\ call' = ListCall(f, hintApplied, "none")
          /\ Commit(ListAuthorizations(Committed, f, hintApplied, "none"))

NextE == ForEachE \/ ListE

SpecE == InitE /\ [][NextE]_vars

\* the keys the cursor of the last call yields, in the order it yields them
Yielded == Cursor(primary, call.f, call.hintApplied)

\* the first n yielded entries decode
DecodeUpTo(n) == \A i \in 1..n : ~IsErr(DecodedInLoop(primary[Yielded[i]]).err)

Ascending(as) == \A n \in 1..(Len(as) - 1) : as[n].id < as[n + 1].id

\* C19: forEachAuthorization is a single forward pass: the records
\* delivered to the callback are those of a prefix of the entries the
\* cursor yields, in ascending encoded-identifier order, each once; the
\* pass ends at the first entry for which the callback returns false
\* (returning no error) or whose value fails to decode (returning that
\* error), and no later entry is delivered; ListAuthorizations returns its
\* matches in ascending identifier order, and the error with no records
\* when a value fails to decode.
C19_ForwardPass ==
    /\ call.op = "forEach"
         => LET n == Len(ret.as)
                stops == StopRecords(call.stop)
            IN  /\ n <= Len(Yielded)
                /\ DecodeUpTo(n)
                /\ \A i \in 1..n :
                      ret.as[i] = DecodedInLoop(primary[Yielded[i]]).a
                /\ Ascending(ret.as)
                /\ \A i \in 1..(n - 1) : ret.as[i] \notin stops
                /\ IsErr(ret.err)
                     => /\ n < Len(Yielded)
                        /\ IsErr(DecodedInLoop(primary[Yielded[n + 1]]).err)
                        /\ ret.err.cause
                             = DecodedInLoop(primary[Yielded[n + 1]]).err.cause
                        /\ n > 0 => ret.as[n] \notin stops
                /\ ~IsErr(ret.err)
                     => \/ n > 0 /\ ret.as[n] \in stops
                        \/ n = Len(Yielded)
    /\ call.op = "list"
         => /\ Ascending(ret.as)
            /\ IsErr(ret.err) <=> ~DecodeUpTo(Len(Yielded))
            /\ IsErr(ret.err) => ret.as = <<>>
            /\ ~IsErr(ret.err)
                 => ret.as = SelectSeq(
                        [i \in 1..Len(Yielded) |->
                            DecodedInLoop(primary[Yielded[i]]).a],
                        LAMBDA a : filterAuthorizationsFn(call.f, a))

\* the callback returned false at the second of three entries, the third
\* being corrupt: two records were delivered and no error returned
C19_Witness ==
    /\ call.op = "forEach"
    /\ Len(Yielded) = 3
    /\ Len(ret.as) = 2
    /\ ret.as[2].id = call.stop
    /\ IsErr(DecodedInLoop(primary[Yielded[3]]).err)
    /\ ret.err = NoErr

====
